---- MODULE Spec2Model ----
(***************************************************************************)
(* Model of the Zero1 benchmarking harness, scripts/run_benchmarks.py.     *)
(*                                                                         *)
(* Text is a sequence of characters; a character is a string, itself for   *)
(* an ASCII character and its code point's name otherwise.  Python's None  *)
(* is the value None.  A dict is a function whose domain is the set of     *)
(* keys present.  A float parsed from text is the exact decimal that was   *)
(* written; the rounded compression ratio is a count of 1/10000 units.     *)
(***************************************************************************)
EXTENDS Integers, Sequences, FiniteSets, TLC

\* Python's None: a value that is no text (its element is not a character)
None == <<"None">>

TRUNCATE_LIMIT == 2000

----------------------------------------------------------------------------
\* Text primitives of the Python runtime, as the code uses them

Min(S) == CHOOSE x \in S : \A y \in S : x <= y
Max(S) == CHOOSE x \in S : \A y \in S : x >= y

\* str.strip() and the regular expression's \s; str.splitlines() boundaries
Whitespace == {" ", "\t", "\n", "\r"}
LineBreaks == {"\n", "\r"}

DigitChars == <<"0", "1", "2", "3", "4", "5", "6", "7", "8", "9">>
DigitVal(c) == (CHOOSE d \in 1..10 : DigitChars[d] = c) - 1

\* characters that take two bytes in UTF-8; every other character of the
\* model's alphabet takes one
TwoByteChars == {"U+00E9"}

\* len(text.encode("utf-8"))
Utf8Len(text) == Len(text) + Cardinality({i \in DOMAIN text : text[i] \in TwoByteChars})

\* str(n) for n >= 0, as the f-string formats it
RECURSIVE str(_)
str(n) == IF n < 10 THEN <<DigitChars[n + 1]>>
          ELSE str(n \div 10) \o <<DigitChars[(n % 10) + 1]>>

\* text[:limit], Python's slice: a negative limit counts from the end
SliceTo(text, limit) ==
    IF limit >= 0 THEN SubSeq(text, 1, Min({limit, Len(text)}))
    ELSE SubSeq(text, 1, Max({0, Len(text) + limit}))

\* text.startswith(prefix)
startswith(text, prefix) ==
    Len(text) >= Len(prefix) /\ SubSeq(text, 1, Len(prefix)) = prefix

\* text.strip()
strip(text) ==
    LET n == Len(text)
        lead == {i \in 1..n : text[i] \notin Whitespace}
        trail == {j \in 1..n : text[n + 1 - j] \notin Whitespace}
    IN  IF lead = {} THEN <<>> ELSE SubSeq(text, Min(lead), n + 1 - Min(trail))

\* text.rstrip("%")
rstrip_percent(text) ==
    LET n == Len(text)
        trail == {j \in 1..n : text[n + 1 - j] # "%"}
    IN  IF trail = {} THEN <<>> ELSE SubSeq(text, 1, n + 1 - Min(trail))

\* text.split(":", 1): one part when there is no colon, else two
split_colon(text) ==
    LET colons == {i \in DOMAIN text : text[i] = ":"}
    IN  IF colons = {} THEN <<text>>
        ELSE <<SubSeq(text, 1, Min(colons) - 1),
               SubSeq(text, Min(colons) + 1, Len(text))>>

\* where the lines of text stop: at each "\n" and "\r" that is not the first
\* half of "\r\n", and after the last character when no terminator ends it
LineStops(text) ==
    {i \in DOMAIN text :
        /\ text[i] \in LineBreaks
        /\ ~(text[i] = "\r" /\ i < Len(text) /\ text[i + 1] = "\n")}
        \cup (IF text # <<>> /\ text[Len(text)] \notin LineBreaks
              THEN {Len(text) + 1} ELSE {})

\* the line of text between the stop before it and its own stop
LineBetween(text, before, stop) ==
    SubSeq(text, before + 1,
           IF stop <= Len(text) /\ text[stop] = "\n" /\ stop - 1 > before
                 /\ text[stop - 1] = "\r"
           THEN stop - 2 ELSE stop - 1)

\* the lines of text, given where they stop
LinesAt(text, stops) ==
    [k \in 1..Cardinality(stops) |->
        LineBetween(text,
                    Max({0} \cup {p \in stops : Cardinality({q \in stops : q < p}) < k - 1}),
                    CHOOSE p \in stops : Cardinality({q \in stops : q < p}) = k - 1)]

\* text.splitlines(): "\n", "\r" and "\r\n" each end a line; a final line
\* without terminator counts, an empty tail after the last terminator does not
splitlines(text) == LinesAt(text, LineStops(text))

----------------------------------------------------------------------------
\* truncate (lines 71-78)

S_truncated == <<".", ".", ".", "[", "t", "r", "u", "n", "c", "a", "t", "e", "d", " ">>
S_chars_close == <<" ", "c", "h", "a", "r", "s", "]">>

\* truncate with the marker counting the whole text instead of what was cut
truncate_counts_all(text, limit) ==
    IF text = None THEN None
    ELSE IF Len(text) <= limit THEN text
    ELSE SliceTo(text, limit) \o <<"\n">> \o S_truncated \o str(Len(text)) \o S_chars_close

truncate(text, limit) ==
    IF text = None THEN None
    ELSE IF Len(text) <= limit THEN text
    ELSE LET trimmed == SliceTo(text, limit)
             omitted == Len(text) - limit
         IN  trimmed \o <<"\n">> \o S_truncated \o str(omitted) \o S_chars_close

----------------------------------------------------------------------------
\* dicts

EmptyDict == [k \in {} |-> None]
Put(d, key, value) == [k \in DOMAIN d \cup {key} |-> IF k = key THEN value ELSE d[k]]

----------------------------------------------------------------------------
\* parse_hash_output (lines 92-102)

S_semhash == <<"s", "e", "m", "h", "a", "s", "h">>
S_formhash == <<"f", "o", "r", "m", "h", "a", "s", "h">>

\* the loop body keeping the first value of a key instead of the last
hash_line_first_wins(hashes, line) ==
    LET parts == split_colon(line)
    IN  IF Len(parts) # 2 THEN hashes
        ELSE IF strip(parts[1]) \in {S_semhash, S_formhash} \ DOMAIN hashes
        THEN Put(hashes, strip(parts[1]), strip(parts[2])) ELSE hashes

\* one pass of the loop body, lines 95-101
hash_line(hashes, line) ==
    LET parts == split_colon(line)
    IN  IF Len(parts) # 2 THEN hashes
        ELSE LET key == strip(parts[1])
                 value == strip(parts[2])
             IN  IF key \in {S_semhash, S_formhash}
                 THEN Put(hashes, key, value) ELSE hashes

RECURSIVE hash_loop(_, _, _)
hash_loop(lines, i, hashes) ==
    IF i > Len(lines) THEN hashes
    ELSE hash_loop(lines, i + 1, hash_line(hashes, lines[i]))

parse_hash_output(output) == hash_loop(splitlines(output), 1, EmptyDict)

----------------------------------------------------------------------------
\* int() and float() of the Python runtime, on text

DigitSet == {DigitChars[d] : d \in 1..10}

\* a digit part: digits, single underscores allowed between them
IsDigitPart(s) ==
    /\ s # <<>>
    /\ \A i \in DOMAIN s : s[i] \in DigitSet \cup {"_"}
    /\ s[1] # "_" /\ s[Len(s)] # "_"
    /\ \A i \in 1..(Len(s) - 1) : ~(s[i] = "_" /\ s[i + 1] = "_")

RECURSIVE DigitsValue(_)
DigitsValue(s) ==
    IF s = <<>> THEN 0
    ELSE IF s[Len(s)] = "_" THEN DigitsValue(SubSeq(s, 1, Len(s) - 1))
    ELSE 10 * DigitsValue(SubSeq(s, 1, Len(s) - 1)) + DigitVal(s[Len(s)])

HasSign(s) == s # <<>> /\ s[1] \in {"+", "-"}
Unsigned(s) == IF HasSign(s) THEN SubSeq(s, 2, Len(s)) ELSE s
SignOf(s) == IF s # <<>> /\ s[1] = "-" THEN -1 ELSE 1

\* whether int(s) succeeds; int() raises ValueError otherwise
IsIntLiteral(s) == IsDigitPart(Unsigned(strip(s)))
IntValue(s) == SignOf(strip(s)) * DigitsValue(Unsigned(strip(s)))

LowerPairs == {<<"I", "i">>, <<"N", "n">>, <<"F", "f">>, <<"A", "a">>,
               <<"T", "t">>, <<"Y", "y">>, <<"E", "e">>}
Lower(c) == IF \E p \in LowerPairs : p[1] = c
            THEN (CHOOSE p \in LowerPairs : p[1] = c)[2] ELSE c
LowerText(s) == [i \in DOMAIN s |-> Lower(s[i])]

S_inf == <<"i", "n", "f">>
S_infinity == <<"i", "n", "f", "i", "n", "i", "t", "y">>
S_nan == <<"n", "a", "n">>

\* the parts of a float literal: the unsigned text in lower case, its
\* exponent after the first e, the digits of its mantissa before and after
\* the dot
FloatDotSplit(body, hasExponent, exponent, mantissa, dots) ==
    [body |-> body,
     hasExponent |-> hasExponent,
     exponent |-> exponent,
     intPart |-> IF dots = {} THEN mantissa ELSE SubSeq(mantissa, 1, Min(dots) - 1),
     fracPart |-> IF dots = {} THEN <<>>
                  ELSE SubSeq(mantissa, Min(dots) + 1, Len(mantissa))]

FloatMantissaSplit(body, hasExponent, exponent, mantissa) ==
    FloatDotSplit(body, hasExponent, exponent, mantissa,
                  {i \in DOMAIN mantissa : mantissa[i] = "."})

FloatExponentSplit(body, es) ==
    FloatMantissaSplit(body, es # {},
                       IF es = {} THEN <<>> ELSE SubSeq(body, Min(es) + 1, Len(body)),
                       IF es = {} THEN body ELSE SubSeq(body, 1, Min(es) - 1))

FloatBodySplit(body) == FloatExponentSplit(body, {i \in DOMAIN body : body[i] = "e"})

FloatParts(s) == FloatBodySplit(LowerText(Unsigned(strip(s))))

IsFloatParts(p) ==
    \/ p.body \in {S_inf, S_infinity, S_nan}
    \/ /\ p.intPart = <<>> \/ IsDigitPart(p.intPart)
       /\ p.fracPart = <<>> \/ IsDigitPart(p.fracPart)
       /\ p.intPart # <<>> \/ p.fracPart # <<>>
       /\ ~p.hasExponent \/ IsDigitPart(Unsigned(p.exponent))

\* whether float(s) succeeds; float() raises ValueError otherwise
IsFloatLiteral(s) == IsFloatParts(FloatParts(s))

RECURSIVE Pow10(_)
Pow10(k) == IF k <= 0 THEN 1 ELSE 10 * Pow10(k - 1)

CountDigits(s) == Cardinality({i \in DOMAIN s : s[i] \in DigitSet})

\* a decimal n / 10^d in lowest terms of ten
RECURSIVE DecNorm(_, _)
DecNorm(n, d) ==
    IF n = 0 THEN [n |-> 0, d |-> 0]
    ELSE IF n % 10 = 0 THEN DecNorm(n \div 10, d - 1)
    ELSE [n |-> n, d |-> d]

FloatOfParts(p, sign, fracDigits) ==
    IF p.body = S_nan THEN [special |-> "nan", sign |-> 1]
    ELSE IF p.body \in {S_inf, S_infinity} THEN [special |-> "inf", sign |-> sign]
    ELSE DecNorm(sign * (DigitsValue(p.intPart) * Pow10(fracDigits)
                            + DigitsValue(p.fracPart)),
                 fracDigits - (IF p.hasExponent
                               THEN SignOf(p.exponent) * DigitsValue(Unsigned(p.exponent))
                               ELSE 0))

FloatOf(p, sign) == FloatOfParts(p, sign, CountDigits(p.fracPart))

\* float(s), given IsFloatLiteral(s)
FloatValue(s) == FloatOf(FloatParts(s), SignOf(strip(s)))

----------------------------------------------------------------------------
\* parse_ctx_output (lines 105-141)

S_total_tokens == <<"T", "o", "t", "a", "l", " ", "t", "o", "k", "e", "n", "s", ":">>
S_budget == <<"B", "u", "d", "g", "e", "t", ":">>
S_usage == <<"U", "s", "a", "g", "e", ":">>
S_characters == <<"C", "h", "a", "r", "a", "c", "t", "e", "r", "s", ":">>
S_tokens == <<"t", "o", "k", "e", "n", "s">>
S_chars_paren == <<"c", "h", "a", "r", "s", ")">>

\* the first position from i on whose character is not in S (Len + 1 if none):
\* where a greedy \s* or \d+ starting at i stops
SkipWhile(s, i, S) == Min({j \in i..(Len(s) + 1) : j = Len(s) + 1 \/ s[j] \notin S})

\* whether literal lit stands in s at position i
LiteralAt(s, i, lit) ==
    i + Len(lit) - 1 <= Len(s) /\ SubSeq(s, i, i + Len(lit) - 1) = lit

NoMatch == [matched |-> FALSE]

\* fn_pattern.match(s), lines 108-110 and 130, piece by piece from the left;
\* each piece is given where the one before it stopped.  The match is
\* anchored at the start of s; text after the closing parenthesis is allowed.

\* \s+chars\)
fn_match_chars(s, name, tokens, chr1, chr2, word2) ==
    IF word2 > chr2 /\ LiteralAt(s, word2, S_chars_paren)
    THEN [matched |-> TRUE, name |-> name, tokens |-> tokens,
          chars |-> SubSeq(s, chr1, chr2 - 1)]
    ELSE NoMatch

\* (?P<chars>\d+)
fn_match_count(s, name, tokens, chr1, chr2) ==
    IF chr2 > chr1
    THEN fn_match_chars(s, name, tokens, chr1, chr2, SkipWhile(s, chr2, Whitespace))
    ELSE NoMatch

\* \s+\(
fn_match_paren(s, name, tokens, word1End, paren) ==
    IF paren > word1End /\ LiteralAt(s, paren, <<"(">>)
    THEN fn_match_count(s, name, tokens, paren + 1, SkipWhile(s, paren + 1, DigitSet))
    ELSE NoMatch

\* \s+tokens
fn_match_word(s, name, tokens, tok2, word1) ==
    IF word1 > tok2 /\ LiteralAt(s, word1, S_tokens)
    THEN fn_match_paren(s, name, tokens, word1 + Len(S_tokens),
                        SkipWhile(s, word1 + Len(S_tokens), Whitespace))
    ELSE NoMatch

\* (?P<tokens>\d+)
fn_match_tokens(s, name, tok1, tok2) ==
    IF tok2 > tok1
    THEN fn_match_word(s, name, SubSeq(s, tok1, tok2 - 1), tok2,
                       SkipWhile(s, tok2, Whitespace))
    ELSE NoMatch

\* :\s*
fn_match_colon(s, name, colon, tok1) ==
    fn_match_tokens(s, name, tok1, SkipWhile(s, tok1, DigitSet))

\* \s*(?P<name>[^:]+): [^:]+ ends at the first colon after the dash; when
\* only whitespace stands before that colon, \s* gives back its last
\* character to the name
fn_match_name(s, colon, nameStart) ==
    IF colon >= 3
    THEN fn_match_colon(s, SubSeq(s, IF nameStart < colon THEN nameStart ELSE colon - 1,
                                  colon - 1),
                        colon, SkipWhile(s, colon + 1, Whitespace))
    ELSE NoMatch

fn_match_dash(s, colons) ==
    IF colons # {} THEN fn_match_name(s, Min(colons), SkipWhile(s, 2, Whitespace))
    ELSE NoMatch

fn_match(s) ==
    IF s # <<>> /\ s[1] = "-" THEN fn_match_dash(s, {i \in 2..Len(s) : s[i] = ":"})
    ELSE NoMatch

\* the parser's locals between two lines: the metrics dict, the functions
\* list, and whether a ValueError left the function
CtxStart(output) ==
    [metrics |-> Put(EmptyDict, "raw", output), functions |-> <<>>, raised |-> FALSE]

CtxRaise(st) == [st EXCEPT !.raised = TRUE]
CtxSet(st, key, value) == [st EXCEPT !.metrics = Put(st.metrics, key, value)]

\* the Usage: conversion without its try/except: as strict as Characters:
usage_line_strict(st, usage) ==
    IF IsFloatLiteral(usage) THEN CtxSet(st, "usage_percent", FloatValue(usage))
    ELSE CtxRaise(st)

\* the conversion of the Usage: remainder, lines 123-126
usage_line(st, usage) ==
    IF IsFloatLiteral(usage) THEN CtxSet(st, "usage_percent", FloatValue(usage))
    ELSE st

\* the conversion of the Characters: remainder, line 128
characters_line(st, value) ==
    IF IsIntLiteral(value) THEN CtxSet(st, "char_count", IntValue(value))
    ELSE CtxRaise(st)

\* the conversion of a Total tokens: or Budget: remainder, lines 114-120
scalar_line(st, key, value) ==
    IF value = <<>> THEN st
    ELSE IF IsIntLiteral(value) THEN CtxSet(st, key, IntValue(value))
    ELSE CtxRaise(st)

\* the else branch, lines 130-138
entry_append(st, fn) ==
    IF fn.matched
    THEN [st EXCEPT !.functions =
             Append(@, [name |-> strip(fn.name),
                        tokens |-> IntValue(fn.tokens),
                        chars |-> IntValue(fn.chars)])]
    ELSE st

entry_line(st, stripped) == entry_append(st, fn_match(stripped))

\* the text after the label's colon, trimmed: split(":", 1)[1].strip()
remainder(stripped) == strip(split_colon(stripped)[2])

\* the branches of lines 113-138, on the trimmed line
ctx_rule(st, stripped) ==
    IF startswith(stripped, S_total_tokens)
    THEN scalar_line(st, "total_tokens", remainder(stripped))
    ELSE IF startswith(stripped, S_budget)
    THEN scalar_line(st, "budget", remainder(stripped))
    ELSE IF startswith(stripped, S_usage)
    THEN usage_line(st, rstrip_percent(remainder(stripped)))
    ELSE IF startswith(stripped, S_characters)
    THEN characters_line(st, remainder(stripped))
    ELSE entry_line(st, stripped)

\* one pass of the loop body, lines 112-138
ctx_line(st, line) == ctx_rule(st, strip(line))

\* the return with the functions key set even for an empty list
ctx_return_always(st) == Put(st.metrics, "functions", st.functions)

\* lines 139-141
ctx_return(st) ==
    IF st.functions # <<>> THEN Put(st.metrics, "functions", st.functions)
    ELSE st.metrics

RECURSIVE ctx_loop(_, _, _)
ctx_loop(lines, i, st) ==
    IF i > Len(lines) \/ st.raised THEN st
    ELSE ctx_loop(lines, i + 1, ctx_line(st, lines[i]))

\* what the call gives back: the dict returned, or raised when int() raised
ctx_outcome(st) ==
    IF st.raised THEN [raised |-> TRUE, metrics |-> EmptyDict]
    ELSE [raised |-> FALSE, metrics |-> ctx_return(st)]

parse_ctx_output(output) ==
    ctx_outcome(ctx_loop(splitlines(output), 1, CtxStart(output)))

----------------------------------------------------------------------------
\* run_command (lines 39-68), given what the process did: its return code
\* and what it wrote to its standard output and standard error.  entry is the
\* CommandResult, echo what run_command writes to the error stream, raised
\* whether CalledProcessError leaves the function.  (command and duration_s
\* of the CommandResult are not modelled.)

\* run_command without the check of the return code
run_command_unchecked(label, capture_output, returncode, out, err) ==
    [entry |-> [label |-> label,
                returncode |-> returncode,
                stdout |-> IF capture_output THEN out ELSE None,
                stderr |-> IF capture_output THEN err ELSE None],
     echo |-> <<>>,
     raised |-> FALSE]

run_command(label, capture_output, returncode, out, err) ==
    [entry |-> [label |-> label,
                returncode |-> returncode,
                stdout |-> IF capture_output THEN out ELSE None,
                stderr |-> IF capture_output THEN err ELSE None],
     echo |-> IF returncode # 0 /\ capture_output THEN out \o err ELSE <<>>,
     raised |-> returncode # 0]

\* ensure_cell without the check that the file exists
ensure_cell_unchecked(file) == [raised |-> FALSE]

\* ensure_cell (lines 144-148): whether FileNotFoundError is raised, given
\* the artifact on disk
ensure_cell(file) == [raised |-> file = None]

\* git_head with check=False
git_head_unchecked(returncode, out) == [raised |-> FALSE, value |-> strip(out)]

\* git_head (lines 81-89): check=True raises on a nonzero return code
git_head(returncode, out) == [raised |-> returncode # 0, value |-> strip(out)]

\* the pipeline of main, lines 172-244: label and capture flag of each step
Steps ==
    <<[label |-> "cargo fmt", capture |-> FALSE],
      [label |-> "cargo clippy", capture |-> FALSE],
      [label |-> "cargo test", capture |-> FALSE],
      [label |-> "z1 fmt --check", capture |-> FALSE],
      [label |-> "z1 fmt relaxed", capture |-> TRUE],
      [label |-> "z1 hash", capture |-> TRUE],
      [label |-> "z1 ctx", capture |-> TRUE]>>

\* result.stdout or "" (lines 247, 265, 266)
or_empty(text) == IF text = None THEN <<>> ELSE text

\* the relaxed text taken from the truncated form the report embeds
relaxed_text_truncated(result) == truncate(or_empty(result.stdout), TRUNCATE_LIMIT)

\* line 247
relaxed_text_of(result) == or_empty(result.stdout)

RECURSIVE GCD(_, _)
GCD(a, b) == IF b = 0 THEN a ELSE GCD(b, a % b)

RECURSIVE IsPowerOfTwo(_)
IsPowerOfTwo(n) == n = 1 \/ (n > 1 /\ n % 2 = 0 /\ IsPowerOfTwo(n \div 2))

NoRatio == [null |-> TRUE]
Ratio(units) == [null |-> FALSE, units |-> units]

\* round(relaxed_bytes / compact_bytes, 4) in units of 1/10000, line 262: the
\* nearest unit.  Exactly halfway between two units, round() takes the even
\* one when the quotient is an exact double (a dyadic fraction); otherwise the
\* double lies just above or just below the halfway point and either unit may
\* come out.
round4(relaxed_bytes, compact_bytes) ==
    LET n == 10000 * relaxed_bytes
        q == n \div compact_bytes
        r == n % compact_bytes
        exact == relaxed_bytes = 0
                    \/ IsPowerOfTwo(compact_bytes \div GCD(relaxed_bytes, compact_bytes))
    IN  IF 2 * r < compact_bytes THEN {q}
        ELSE IF 2 * r > compact_bytes THEN {q + 1}
        ELSE IF exact THEN {IF q % 2 = 0 THEN q ELSE q + 1}
        ELSE {q, q + 1}

\* the values compression_ratio may take, lines 261-263
compression_ratio(relaxed_bytes, compact_bytes) ==
    IF compact_bytes # 0
    THEN {Ratio(u) : u \in round4(relaxed_bytes, compact_bytes)}
    ELSE {NoRatio}

\* lines 256-264, given the ratio that came out
cell_metrics(compact_text, relaxed_text, ratio) ==
    [compact_chars |-> Len(compact_text),
     compact_bytes |-> Utf8Len(compact_text),
     relaxed_chars |-> Len(relaxed_text),
     relaxed_bytes |-> Utf8Len(relaxed_text),
     compression_ratio |-> ratio]

\* the record embedded as captured, without truncation
payload_untruncated(result) == result

\* lines 275-277: a command's record as it goes into the report
payload(result) ==
    [result EXCEPT !.stdout = truncate(result.stdout, TRUNCATE_LIMIT),
                   !.stderr = truncate(result.stderr, TRUNCATE_LIMIT)]

\* the three capturing results put ahead of the four others
report_order_captured_first(results, relaxed, hash, ctx) == <<relaxed, hash, ctx>> \o results

\* line 274: the order of the report's commands
report_order(results, relaxed, hash, ctx) == results \o <<relaxed, hash, ctx>>

\* lines 269-278 (timestamp is not modelled)
build_report(revision, metrics, hashes, context, results) ==
    [meta |-> [git_head |-> revision,
               cell_metrics |-> metrics,
               hashes |-> hashes,
               context |-> context],
     commands |-> [i \in DOMAIN results |-> payload(results[i])]]

----------------------------------------------------------------------------
\* State

VARIABLES
    pc,               \* where main is: "idle", "start", "ready", "running", "exited"
    step,             \* the pipeline step running or last run, 0..7
    cell_file,        \* the artifact on disk: its text, or None when missing
    in_repo,          \* whether the artifact path lies under REPO_ROOT
    command_results,  \* main's list of the first four results
    relaxed_result,   \* main's locals for the three capturing steps
    hash_result,
    ctx_result,
    err_stream,       \* what the run wrote to its own standard error
    report_file,      \* the report at the output path, NoFile until written
    exit_status,      \* the process exit status, None while running
    exception,        \* the exception that left main, "none" otherwise
    history,          \* what happened so far: steps started, return codes,
                      \* which texts the processes wrote, whether the artifact
                      \* existed at the start and was touched since, outcomes
                      \* of the directory, git and open calls, writes made
    trunc,            \* a call of truncate: arguments and result
    hashp,            \* a call of parse_hash_output: input and result
    ctxp              \* a call of parse_ctx_output: input, loop position, locals

mainVars == <<pc, step, cell_file, in_repo, command_results, relaxed_result,
              hash_result, ctx_result, err_stream, report_file, exit_status,
              exception, history>>
vars == <<pc, step, cell_file, in_repo, command_results, relaxed_result,
          hash_result, ctx_result, err_stream, report_file, exit_status,
          exception, history, trunc, hashp, ctxp>>

Idle == [pc |-> "idle"]

\* no file at the report's path
NoFile == [missing |-> TRUE]

MainIdle ==
    /\ pc = "idle" /\ step = 0 /\ cell_file = None /\ in_repo = TRUE
    /\ command_results = <<>> /\ relaxed_result = None /\ hash_result = None
    /\ ctx_result = None /\ err_stream = <<>> /\ report_file = NoFile
    /\ exit_status = None /\ exception = "none" /\ history = Idle

----------------------------------------------------------------------------
\* Bounds of the inputs

MaxTextLen == 4      \* truncate: every text over TruncAlphabet up to this length
MaxLongLen == 12     \* truncate: uniform texts up to this length
MaxLimit == 12       \* truncate: limits up to this
NegLimits == 2       \* truncate: limits down to minus this
MaxHashLines == 2    \* parse_hash_output: lines of input
MaxCtxLines == 3     \* parse_ctx_output: lines of input

RECURSIVE SeqsUpTo(_, _)
SeqsUpTo(S, n) ==
    IF n = 0 THEN {<<>>}
    ELSE LET shorter == SeqsUpTo(S, n - 1)
         IN  shorter \cup {Append(q, x) : q \in {r \in shorter : Len(r) = n - 1}, x \in S}

Rep(c, n) == [i \in 1..n |-> c]

\* "sep".join(texts), with sep once more at the end when trailing
RECURSIVE Join(_, _, _)
Join(texts, sep, trailing) ==
    IF texts = <<>> THEN <<>>
    ELSE IF Len(texts) = 1 THEN texts[1] \o (IF trailing THEN sep ELSE <<>>)
    ELSE texts[1] \o sep \o Join(Tail(texts), sep, trailing)

----------------------------------------------------------------------------
\* truncate, called on its own

TruncAlphabet == {"a", "\n"}
TruncTexts ==
    SeqsUpTo(TruncAlphabet, MaxTextLen)
        \cup {Rep("a", n) : n \in (MaxTextLen + 1)..MaxLongLen} \cup {None}

TruncateInit ==
    /\ MainIdle /\ hashp = Idle /\ ctxp = Idle
    /\ trunc \in {[pc |-> "call", text |-> t, limit |-> l, result |-> None] :
                     t \in TruncTexts, l \in (-NegLimits)..MaxLimit}

TruncateCall ==
    /\ trunc.pc = "call"
    /\ trunc' = [trunc EXCEPT !.pc = "done", !.result = truncate(trunc.text, trunc.limit)]
    /\ UNCHANGED <<mainVars, hashp, ctxp>>

TruncateNext == TruncateCall
SpecTruncate == TruncateInit /\ [][TruncateNext]_vars

----------------------------------------------------------------------------
\* parse_hash_output, called on its own.  An input is a list of lines, each
\* put together from a key, a colon or none, and a value; trimmed is the
\* fragment without its surrounding whitespace.

HashKeys ==
    {[raw |-> S_semhash, trimmed |-> S_semhash],
     [raw |-> <<" ">> \o S_formhash \o <<"\t">>, trimmed |-> S_formhash],
     [raw |-> <<"o", "t", "h", "e", "r">>, trimmed |-> <<"o", "t", "h", "e", "r">>]}
HashValues ==
    {[raw |-> <<"a", "1">>, trimmed |-> <<"a", "1">>],
     [raw |-> <<" ", "b", " ">>, trimmed |-> <<"b">>],
     [raw |-> <<"c", ":", "d">>, trimmed |-> <<"c", ":", "d">>],
     [raw |-> <<>>, trimmed |-> <<>>]}
HashLineChoices ==
    {[key |-> k, colon |-> TRUE, value |-> v] : k \in HashKeys, v \in HashValues}
        \cup {[key |-> k, colon |-> FALSE, value |-> [raw |-> <<>>, trimmed |-> <<>>]] :
                 k \in HashKeys}
HashLineText(l) == l.key.raw \o (IF l.colon THEN <<":">> ELSE <<>>) \o l.value.raw
HashSeparators == {<<"\n">>, <<"\r", "\n">>}

HashInit ==
    /\ MainIdle /\ trunc = Idle /\ ctxp = Idle
    /\ hashp \in {[pc |-> "call", src |-> src, hashes |-> EmptyDict,
                   output |-> Join([i \in DOMAIN src |-> HashLineText(src[i])], sep, trailing)] :
                     src \in SeqsUpTo(HashLineChoices, MaxHashLines),
                     sep \in HashSeparators, trailing \in BOOLEAN}

HashCall ==
    /\ hashp.pc = "call"
    /\ hashp' = [hashp EXCEPT !.pc = "done", !.hashes = parse_hash_output(hashp.output)]
    /\ UNCHANGED <<mainVars, trunc, ctxp>>

HashNext == HashCall
SpecHash == HashInit /\ [][HashNext]_vars
----------------------------------------------------------------------------
\* parse_ctx_output, called on its own and followed line by line.  An input
\* is a list of lines, each of a known kind; an entry line is formatted from
\* its name and its two counts.

S_foo == <<"f", "o", "o">>
S_bar_baz == <<"b", "a", "r", " ", "b", "a", "z">>

EntryText(indent, name, tokens, chars) ==
    indent \o <<"-", " ">> \o name \o <<":", " ">> \o str(tokens) \o <<" ">> \o S_tokens
        \o <<" ", "(">> \o str(chars) \o <<" ">> \o S_chars_paren

CtxScalarChoices ==
    {[kind |-> "total", value |-> 150, text |-> S_total_tokens \o <<" ", "1", "5", "0">>],
     [kind |-> "total", value |-> 7, text |-> <<" ">> \o S_total_tokens \o <<"7", " ">>],
     [kind |-> "blank", value |-> 0, text |-> S_total_tokens],
     [kind |-> "budget", value |-> 200, text |-> S_budget \o <<" ", "2", "0", "0">>],
     [kind |-> "usage", value |-> 0, text |-> S_usage \o <<" ", "7", "5", ".", "0", "%">>],
     [kind |-> "usage_bad", value |-> 0, text |-> S_usage \o <<" ", "N", "/", "A", "%">>],
     [kind |-> "usage_bad", value |-> 0,
      text |-> S_usage \o <<" ">> \o EntryText(<<>>, S_foo, 1, 2)],
     [kind |-> "characters", value |-> 900, text |-> S_characters \o <<" ", "9", "0", "0">>],
     [kind |-> "characters_bad", value |-> 0, text |-> S_characters \o <<" ", "9", "x">>],
     [kind |-> "noise", value |-> 0, text |-> <<"-", " ", "f", "o", "o", ":", " ", "1", "0", " ", "t", "o", "k", "e", "n", "s">>]}
CtxEntryChoices ==
    {[kind |-> "entry", name |-> S_foo, tokens |-> 10, chars |-> 40,
      text |-> EntryText(<<>>, S_foo, 10, 40)],
     [kind |-> "entry", name |-> S_bar_baz, tokens |-> 2, chars |-> 7,
      text |-> EntryText(<<" ", " ">>, S_bar_baz, 2, 7)]}
CtxLineChoices == CtxScalarChoices \cup CtxEntryChoices

CtxInit ==
    /\ MainIdle /\ trunc = Idle /\ hashp = Idle
    /\ ctxp \in {[pc |-> "call", src |-> src, lines |-> <<>>, i |-> 1,
                  st |-> CtxStart(<<>>), result |-> None,
                  output |-> Join([k \in DOMAIN src |-> src[k].text], <<"\n">>, trailing)] :
                     src \in SeqsUpTo(CtxLineChoices, MaxCtxLines), trailing \in BOOLEAN}

\* lines 106-111: the locals are set up and the input is split
CtxEnter ==
    /\ ctxp.pc = "call"
    /\ ctxp' = [ctxp EXCEPT !.pc = "loop", !.lines = splitlines(ctxp.output),
                            !.i = 1, !.st = CtxStart(ctxp.output)]
    /\ UNCHANGED <<mainVars, trunc, hashp>>

\* lines 111-138: one line is handled; a ValueError leaves the function
CtxLine ==
    /\ ctxp.pc = "loop" /\ ctxp.i <= Len(ctxp.lines)
    /\ LET st == ctx_line(ctxp.st, ctxp.lines[ctxp.i])
       IN  ctxp' = [ctxp EXCEPT !.pc = IF st.raised THEN "raised" ELSE "loop",
                                !.i = @ + 1, !.st = st]
    /\ UNCHANGED <<mainVars, trunc, hashp>>

\* lines 139-141: the loop is over and the dict is returned
CtxReturn ==
    /\ ctxp.pc = "loop" /\ ctxp.i > Len(ctxp.lines)
    /\ ctxp' = [ctxp EXCEPT !.pc = "done", !.result = ctx_return(ctxp.st)]
    /\ UNCHANGED <<mainVars, trunc, hashp>>

CtxNext == CtxEnter \/ CtxLine \/ CtxReturn
SpecCtx == CtxInit /\ [][CtxNext]_vars

----------------------------------------------------------------------------
\* main (lines 151-288) and its environment

LongExtra == 1       \* a long text is this much longer than TRUNCATE_LIMIT

LongText(c) == Rep(c, TRUNCATE_LIMIT + LongExtra)

\* what the artifact may hold
CellContents == {<<>>, <<"c", "U+00E9">>, Rep("a", 32), Rep("a", 160)}

ReturnCodes == {0, 1, 101}

\* what a process may write to its standard output, by step
S_hashes == S_semhash \o <<":", " ", "a", "1", "\n">> \o S_formhash \o <<":", " ", "b", "2", "\n">>
S_ctx_report ==
    S_total_tokens \o <<" ", "1", "5", "0", "\n">> \o S_usage \o <<" ", "N", "/", "A", "%", "\n">>
        \o S_characters \o <<" ", "9", "0", "0", "\n">> \o EntryText(<<>>, S_foo, 10, 40) \o <<"\n">>
S_ctx_malformed == S_characters \o <<" ", "9", "x", "\n">> \o S_budget \o <<" ", "2", "0", "0", "\n">>

\* the texts a process may write, by step; the environment picks one by
\* its place in the list
StdoutOf(k) ==
    CASE k = 5 -> <<<<>>, <<"U+00E9", "1">>, LongText("a")>>
      [] k = 6 -> <<S_hashes>>
      [] k = 7 -> <<S_ctx_report, S_ctx_malformed, S_ctx_report \o LongText("x")>>
      [] OTHER -> <<<<"o", "k">>>>
StderrOf(k) == IF k = 6 THEN <<<<>>, LongText("e")>> ELSE <<<<>>>>

GitReturnCodes == {0, 128}
S_revision == <<"a", "b", "c", "1", "\n">>

NoHistory ==
    [started |-> <<>>, exits |-> <<>>, wrote |-> <<>>, existed |-> FALSE,
     touched |-> FALSE, mkdir_ok |-> TRUE, git_rc |-> 0, open_ok |-> TRUE,
     writes |-> 0]

Init ==
    /\ pc = "start"
    /\ step = 0
    /\ cell_file \in CellContents \cup {None}
    /\ in_repo \in BOOLEAN
    /\ command_results = <<>>
    /\ relaxed_result = None /\ hash_result = None /\ ctx_result = None
    /\ err_stream = <<>>
    /\ report_file = NoFile
    /\ exit_status = None
    /\ exception = "none"
    /\ history = NoHistory
    /\ trunc = Idle /\ hashp = Idle /\ ctxp = Idle

\* an exception leaves main: the interpreter exits with status 1
Raise(name) ==
    /\ pc' = "exited"
    /\ exception' = name
    /\ exit_status' = 1

\* lines 163-169: ensure_cell, then the output directory is made
Begin ==
    /\ pc = "start"
    /\ \E mkdir_ok \in BOOLEAN :
          /\ history' = [history EXCEPT !.existed = cell_file # None,
                                        !.mkdir_ok = mkdir_ok]
          /\ IF ensure_cell(cell_file).raised THEN Raise("FileNotFoundError")
             ELSE IF ~mkdir_ok THEN Raise("OSError")
             ELSE pc' = "ready" /\ UNCHANGED <<exception, exit_status>>
    /\ UNCHANGED <<step, cell_file, in_repo, command_results, relaxed_result,
                   hash_result, ctx_result, err_stream, report_file,
                   trunc, hashp, ctxp>>

\* line 46: run_command starts the process of the next step and waits
StartStep ==
    /\ pc = "ready" /\ step < Len(Steps)
    /\ step' = step + 1
    /\ pc' = "running"
    /\ history' = [history EXCEPT !.started = Append(@, Steps[step + 1].label)]
    /\ UNCHANGED <<cell_file, in_repo, command_results, relaxed_result,
                   hash_result, ctx_result, err_stream, report_file,
                   exit_status, exception, trunc, hashp, ctxp>>

\* while a process runs, the artifact may be rewritten or removed
TouchCell ==
    /\ pc = "running"
    /\ \E file \in (CellContents \cup {None}) \ {cell_file} : cell_file' = file
    /\ history' = [history EXCEPT !.touched = TRUE]
    /\ UNCHANGED <<pc, step, in_repo, command_results, relaxed_result,
                   hash_result, ctx_result, err_stream, report_file,
                   exit_status, exception, trunc, hashp, ctxp>>

\* lines 53-68 and the assignment in main: the process exits, run_command
\* returns its record or raises
ExitStep ==
    /\ pc = "running"
    /\ \E rc \in ReturnCodes, o \in DOMAIN StdoutOf(step), e \in DOMAIN StderrOf(step) :
          LET r == run_command(Steps[step].label, Steps[step].capture, rc,
                               StdoutOf(step)[o], StderrOf(step)[e])
          IN  /\ history' = [history EXCEPT !.exits = Append(@, rc),
                                            !.wrote = Append(@, [out |-> o, err |-> e])]
              /\ err_stream' = err_stream \o r.echo
              /\ IF r.raised
                 THEN /\ Raise("CalledProcessError")
                      /\ UNCHANGED <<command_results, relaxed_result, hash_result, ctx_result>>
                 ELSE /\ pc' = IF step = Len(Steps) THEN "collect" ELSE "ready"
                      /\ command_results' =
                            IF step <= 4 THEN Append(command_results, r.entry)
                            ELSE command_results
                      /\ relaxed_result' = IF step = 5 THEN r.entry ELSE relaxed_result
                      /\ hash_result' = IF step = 6 THEN r.entry ELSE hash_result
                      /\ ctx_result' = IF step = 7 THEN r.entry ELSE ctx_result
                      /\ UNCHANGED <<exception, exit_status>>
    /\ UNCHANGED <<step, cell_file, in_repo, report_file, trunc, hashp, ctxp>>

\* lines 246-288: the artifact is read, the metrics are built (git_head, the
\* relative path, the two parsers, in this order), the report is assembled
\* and written
Finish ==
    /\ pc = "collect"
    /\ \E git_rc \in GitReturnCodes, open_ok \in BOOLEAN :
          LET compact_text == cell_file
              relaxed_text == relaxed_text_of(relaxed_result)
              head == git_head(git_rc, S_revision)
              hashes == parse_hash_output(or_empty(hash_result.stdout))
              context == parse_ctx_output(or_empty(ctx_result.stdout))
              results == report_order(command_results, relaxed_result,
                                      hash_result, ctx_result)
          IN  /\ IF cell_file = None
                 THEN Raise("FileNotFoundError")
                      /\ UNCHANGED <<report_file, history>>
                 ELSE IF head.raised
                 THEN Raise("CalledProcessError")
                      /\ history' = [history EXCEPT !.git_rc = git_rc]
                      /\ UNCHANGED report_file
                 ELSE IF ~in_repo \/ context.raised
                 THEN Raise("ValueError")
                      /\ history' = [history EXCEPT !.git_rc = git_rc]
                      /\ UNCHANGED report_file
                 ELSE IF ~open_ok
                 THEN Raise("OSError")
                      /\ history' = [history EXCEPT !.git_rc = git_rc,
                                                    !.open_ok = open_ok]
                      /\ UNCHANGED report_file
                 ELSE \E ratio \in compression_ratio(Utf8Len(relaxed_text),
                                                     Utf8Len(compact_text)) :
                         /\ report_file' =
                               build_report(head.value,
                                            cell_metrics(compact_text, relaxed_text, ratio),
                                            hashes, context.metrics, results)
                         /\ history' = [history EXCEPT !.git_rc = git_rc,
                                                       !.open_ok = open_ok,
                                                       !.writes = @ + 1]
                         /\ pc' = "exited"
                         /\ exit_status' = 0
                         /\ UNCHANGED exception
    /\ UNCHANGED <<step, cell_file, in_repo, command_results, relaxed_result,
                   hash_result, ctx_result, err_stream, trunc, hashp, ctxp>>

Next == Begin \/ StartStep \/ TouchCell \/ ExitStep \/ Finish
Spec == Init /\ [][Next]_vars

----------------------------------------------------------------------------
\* Claims about main, under Spec

Exited == pc = "exited"
Written == report_file # NoFile

\* the steps that exited with a nonzero return code
FailedSteps == {k \in DOMAIN history.exits : history.exits[k] # 0}
AllSevenSucceeded ==
    Len(history.exits) = Len(Steps) /\ FailedSteps = {}

\* C1: when step k is the first to exit nonzero, no later step is ever
\* started, the report is never written, and the run ends at once with a
\* nonzero exit status, CalledProcessError having left main
C1_FailFast ==
    \A k \in FailedSteps :
        /\ k = Len(history.exits)
        /\ Len(history.started) = k
        /\ step = k
        /\ history.writes = 0 /\ ~Written
        /\ Exited /\ exit_status # 0
        /\ exception = "CalledProcessError"

\* the second of the seven steps exited with code 1 and the run is over
C1_Witness ==
    /\ Exited
    /\ history.exits = <<0, 1>>
    /\ Len(history.started) = 2

PipelineLabels ==
    <<"cargo fmt", "cargo clippy", "cargo test", "z1 fmt --check",
      "z1 fmt relaxed", "z1 hash", "z1 ctx">>

\* C2: the steps start in the fixed order, step i+1 only after step i has
\* exited with return code 0, and a written report lists exactly the seven
\* commands, labelled in execution order
C2_FixedOrder ==
    /\ Len(history.started) <= Len(PipelineLabels)
    /\ \A i \in DOMAIN history.started : history.started[i] = PipelineLabels[i]
    /\ Len(history.exits) \in {Len(history.started) - 1, Len(history.started)}
    /\ pc = "running" <=> Len(history.exits) = Len(history.started) - 1
    /\ \A i \in 1..(Len(history.started) - 1) : history.exits[i] = 0
    /\ Written =>
          /\ AllSevenSucceeded
          /\ Len(report_file.commands) = 7
          /\ \A i \in 1..7 :
                /\ report_file.commands[i].label = PipelineLabels[i]
                /\ report_file.commands[i].label = history.started[i]
                /\ report_file.commands[i].returncode = 0

\* a report was written after all seven steps ran
C2_Witness ==
    /\ Written
    /\ Len(history.started) = 7
    /\ report_file.commands[5].label = "z1 fmt relaxed"

\* C3: when the artifact does not exist at the start, ensure_cell fails
\* before any command is started: no command runs, no report is written, and
\* the run ends with a nonzero exit status
C3_MissingArtifact ==
    (pc # "start" /\ ~history.existed) =>
        /\ Exited /\ exit_status # 0
        /\ exception = "FileNotFoundError"
        /\ history.started = <<>> /\ history.exits = <<>> /\ step = 0
        /\ history.writes = 0 /\ ~Written

\* the run ended on a missing artifact
C3_Witness == Exited /\ ~history.existed /\ exit_status = 1

\* the output of step 7 on which parse_ctx_output raises ValueError
CtxOutputIsMalformed == StdoutOf(7)[history.wrote[7].out] = S_ctx_malformed

\* C4 as stated, granting that the output directory can be made and the
\* report file opened: with the artifact in place and all seven commands
\* exiting 0 the run writes the report once and exits 0, and a nonzero exit
\* status occurs only when the artifact is missing or a pipeline step fails
C4_AsStated ==
    (Exited /\ history.mkdir_ok /\ history.open_ok) =>
        /\ (history.existed /\ cell_file # None /\ AllSevenSucceeded) =>
              (history.writes = 1 /\ exit_status = 0)
        /\ exit_status # 0 =>
              (~history.existed \/ cell_file = None \/ FailedSteps # {})

\* everything the report depends on after the pipeline: the artifact can
\* still be read, git rev-parse HEAD exits 0, the artifact path lies under
\* the project root, parse_ctx_output does not raise, the report file opens
PostPipelineSucceeds ==
    /\ cell_file # None
    /\ history.git_rc = 0
    /\ in_repo
    /\ ~CtxOutputIsMalformed
    /\ history.open_ok

\* C4, amended: with the artifact in place at the start, the output directory
\* made and all seven commands exiting 0, the run writes the report exactly
\* once and exits 0 when the steps after the pipeline succeed too, and exits
\* nonzero without a report when one of them fails; the report is written at
\* most once and exactly by the runs that exit 0
C4_FullSuccess ==
    /\ history.writes <= 1
    /\ Written <=> history.writes = 1
    /\ Exited =>
          /\ exit_status = 0 <=> history.writes = 1
          /\ exit_status = 0 <=> exception = "none"
          /\ exit_status = 0 <=>
                /\ history.existed /\ history.mkdir_ok
                /\ AllSevenSucceeded
                /\ PostPipelineSucceeds
    /\ ~Exited => history.writes = 0

\* a run whose seven commands all exited 0 wrote its report and exited 0
C4_Witness ==
    /\ Exited /\ AllSevenSucceeded
    /\ exit_status = 0 /\ history.writes = 1 /\ Written

\* the text step k's process wrote to standard output and standard error
WroteOut(k) == StdoutOf(k)[history.wrote[k].out]
WroteErr(k) == StderrOf(k)[history.wrote[k].err]

\* field is the truncated form of text at TRUNCATE_LIMIT: text itself when it
\* fits, else its first TRUNCATE_LIMIT characters and the marker line, which
\* is never the text itself
IsTruncatedForm(field, text) ==
    /\ field # None
    /\ field = truncate(text, TRUNCATE_LIMIT)
    /\ Len(text) <= TRUNCATE_LIMIT => field = text
    /\ Len(text) > TRUNCATE_LIMIT =>
          /\ field # text
          /\ SubSeq(field, 1, TRUNCATE_LIMIT) = SubSeq(text, 1, TRUNCATE_LIMIT)
          /\ field[TRUNCATE_LIMIT + 1] = "\n"
          /\ Len(field) = TRUNCATE_LIMIT + 1 + Len(S_truncated)
                             + Len(str(Len(text) - TRUNCATE_LIMIT)) + Len(S_chars_close)

\* C6: in a written report the stdout and stderr of steps 5-7, which ran with
\* capture, are the truncated forms of the captured texts and never null,
\* and those of steps 1-4, which ran without, are null, not an empty string
C6_ReportText ==
    Written =>
        \A i \in 1..7 :
            IF i >= 5
            THEN /\ IsTruncatedForm(report_file.commands[i].stdout, WroteOut(i))
                 /\ IsTruncatedForm(report_file.commands[i].stderr, WroteErr(i))
            ELSE /\ report_file.commands[i].stdout = None
                 /\ report_file.commands[i].stderr = None

\* a report embeds a step-5 stdout of more than 2000 characters cut down, and
\* a step-6 stderr likewise
C6_Witness ==
    /\ Written
    /\ Len(WroteOut(5)) > TRUNCATE_LIMIT
    /\ report_file.commands[5].stdout # WroteOut(5)
    /\ Len(WroteErr(6)) > TRUNCATE_LIMIT
    /\ report_file.commands[6].stderr # WroteErr(6)
    /\ report_file.commands[1].stdout = None

\* C10: in a written report compression_ratio is null iff compact_bytes is 0
\* and otherwise relaxed_bytes / compact_bytes rounded to the nearest 1/10000,
\* compact_bytes being the UTF-8 length of the artifact as it is after the
\* seventh command and relaxed_bytes that of the whole stdout of step 5
C10_CompressionRatio ==
    Written =>
        LET m == report_file.meta.cell_metrics
        IN  /\ m.compact_bytes = Utf8Len(cell_file)
            /\ m.relaxed_bytes = Utf8Len(WroteOut(5))
            /\ m.compression_ratio = NoRatio <=> m.compact_bytes = 0
            /\ m.compact_bytes # 0 =>
                  LET off == m.compression_ratio.units * m.compact_bytes
                                - 10000 * m.relaxed_bytes
                  IN  /\ 2 * off <= m.compact_bytes
                      /\ -2 * off <= m.compact_bytes

\* a report made after the artifact was rewritten during the run, from a
\* step-5 stdout of more than 2000 characters: 2001 / 32 gives 62.5312
C10_Witness ==
    /\ Written
    /\ history.touched
    /\ Len(WroteOut(5)) > TRUNCATE_LIMIT
    /\ report_file.meta.cell_metrics.compact_bytes = 32
    /\ report_file.meta.cell_metrics.relaxed_bytes = TRUNCATE_LIMIT + LongExtra
    /\ report_file.meta.cell_metrics.compression_ratio.units
          = (10000 * (TRUNCATE_LIMIT + LongExtra)) \div 32

----------------------------------------------------------------------------
\* Claims about truncate, under SpecTruncate

\* the marker's digits, read back as a number: the text between
\* "...[truncated " and " chars]" at the end of a truncated result
MarkerDigits(result, limit) ==
    SubSeq(result, limit + 2 + Len(S_truncated), Len(result) - Len(S_chars_close))

\* C5: for every text T and limit L >= 0, truncate(T, L) is T when len(T) <= L,
\* and otherwise the first L characters of T, a newline, and the marker
\* "...[truncated N chars]" with N = len(T) - L in decimal, so that its length
\* is L plus the length of the marker line
C5_TruncatorResult ==
    (trunc.pc = "done" /\ trunc.text # None /\ trunc.limit >= 0) =>
        LET T == trunc.text
            L == trunc.limit
            R == trunc.result
            D == MarkerDigits(R, L)
        IN  /\ Len(T) <= L => R = T
            /\ Len(T) > L =>
                  /\ Len(R) > L + 1 + Len(S_truncated) + Len(S_chars_close)
                  /\ \A i \in 1..L : R[i] = T[i]
                  /\ R[L + 1] = "\n"
                  /\ SubSeq(R, L + 2, L + 1 + Len(S_truncated)) = S_truncated
                  /\ SubSeq(R, Len(R) - Len(S_chars_close) + 1, Len(R)) = S_chars_close
                  /\ \A i \in DOMAIN D : D[i] \in DigitSet
                  /\ Len(D) = 1 \/ D[1] # "0"
                  /\ DigitsValue(D) = Len(T) - L
                  /\ Len(R) = L + 1 + Len(S_truncated) + Len(D) + Len(S_chars_close)

\* a text of 11 characters was cut at 1, leaving a two-digit count in the marker
C5_Witness ==
    /\ trunc.pc = "done" /\ trunc.text # None
    /\ trunc.limit = 1 /\ Len(trunc.text) = 11
    /\ DigitsValue(MarkerDigits(trunc.result, 1)) = 10

----------------------------------------------------------------------------
\* Claims about parse_hash_output, under SpecHash

HashVocabulary == {S_semhash, S_formhash}

\* the input lines that name key K: a colon, and K before it once trimmed
HashLinesFor(K) ==
    {i \in DOMAIN hashp.src : hashp.src[i].colon /\ hashp.src[i].key.trimmed = K}

\* C7: parse_hash_output returns, for every input, a mapping over a subset of
\* {semhash, formhash}; a key is present iff some line split at its first
\* colon has that key once trimmed, and its value is the trimmed value of the
\* last such line; other lines contribute nothing
C7_HashParser ==
    hashp.pc = "done" =>
        /\ DOMAIN hashp.hashes \subseteq HashVocabulary
        /\ \A K \in HashVocabulary :
              /\ K \in DOMAIN hashp.hashes <=> HashLinesFor(K) # {}
              /\ HashLinesFor(K) # {} =>
                    hashp.hashes[K] = hashp.src[Max(HashLinesFor(K))].value.trimmed

\* two lines named semhash with different values, and the second one won
C7_Witness ==
    /\ hashp.pc = "done"
    /\ Cardinality(HashLinesFor(S_semhash)) = 2
    /\ hashp.src[1].value.trimmed # hashp.src[2].value.trimmed
    /\ hashp.hashes[S_semhash] = hashp.src[2].value.trimmed
----------------------------------------------------------------------------
\* Claims about parse_ctx_output, under SpecCtx

\* the input line the loop is at, and the lines it has handled
CtxAtLine == ctxp.pc = "loop" /\ ctxp.i <= Len(ctxp.src)
CtxHandled == SubSeq(ctxp.src, 1, ctxp.i - 1)

\* the last input line of a kind, 0 when there is none
CtxLastOf(kind) ==
    LET at == {k \in DOMAIN ctxp.src : ctxp.src[k].kind = kind}
    IN  IF at = {} THEN 0 ELSE Max(at)

\* a scalar field of the returned dict holds the value of the last line that
\* names it, and is absent when no such line exists
CtxScalarRecorded(key, kind) ==
    IF CtxLastOf(kind) = 0 THEN key \notin DOMAIN ctxp.result
    ELSE key \in DOMAIN ctxp.result /\ ctxp.result[key] = ctxp.src[CtxLastOf(kind)].value

\* what a malformed Usage: line does: nothing, and the loop goes on
C8_UsageStep ==
    (CtxAtLine /\ ctxp.src[ctxp.i].kind = "usage_bad") =>
        /\ ctxp'.pc = "loop"
        /\ ctxp'.i = ctxp.i + 1
        /\ ctxp'.st = ctxp.st

\* what a malformed Characters: line does: the call ends in ValueError
C8_CharactersStep ==
    (CtxAtLine /\ ctxp.src[ctxp.i].kind = "characters_bad") => ctxp'.pc = "raised"

\* a call that raised returned nothing; a call that returned handled every
\* line, left usage_percent unset unless a well-formed Usage: line set it, and
\* recorded the scalars of all its lines, those after a malformed Usage: too
C8_Outcome ==
    /\ ctxp.pc = "raised" => ctxp.result = None
    /\ ctxp.pc = "done" =>
          /\ ctxp.i = Len(ctxp.src) + 1
          /\ CtxLastOf("characters_bad") = 0
          /\ CtxLastOf("usage") = 0 => "usage_percent" \notin DOMAIN ctxp.result
          /\ CtxScalarRecorded("total_tokens", "total")
          /\ CtxScalarRecorded("budget", "budget")
          /\ CtxScalarRecorded("char_count", "characters")

\* C8: a Usage: line whose remainder is no number leaves usage_percent as it
\* was and never ends the parsing, so the later lines are handled and
\* recorded; a Characters: line whose remainder is no integer makes
\* parse_ctx_output fail without a result
C8_AsymmetricTolerance ==
    /\ []C8_Outcome
    /\ [][C8_UsageStep /\ C8_CharactersStep]_vars

\* a call returned although its first line was a malformed Usage: line; the
\* Total tokens: line after it was recorded and usage_percent is unset
C8_Witness ==
    /\ ctxp.pc = "done"
    /\ Len(ctxp.src) = 2
    /\ ctxp.src[1].kind = "usage_bad"
    /\ ctxp.src[2].kind = "total"
    /\ ctxp.result["total_tokens"] = ctxp.src[2].value
    /\ "usage_percent" \notin DOMAIN ctxp.result

CtxIsEntry(line) == line.kind = "entry"
CtxEntryOf(line) == [name |-> line.name, tokens |-> line.tokens, chars |-> line.chars]
CtxEntriesOf(lines) ==
    LET entries == SelectSeq(lines, CtxIsEntry)
    IN  [k \in DOMAIN entries |-> CtxEntryOf(entries[k])]

\* C9: the functions list holds exactly the entry lines handled so far, in
\* their order of appearance with duplicates kept, and no line that starts
\* with a scalar label adds to it; the returned dict has the key functions
\* iff there was at least one entry line, and raw is the whole input
C9_ContextEntries ==
    /\ ctxp.pc \in {"loop", "raised", "done"} =>
          ctxp.st.functions = CtxEntriesOf(CtxHandled)
    /\ ctxp.pc = "done" =>
          /\ "functions" \in DOMAIN ctxp.result <=> CtxEntriesOf(ctxp.src) # <<>>
          /\ "functions" \in DOMAIN ctxp.result =>
                ctxp.result["functions"] = CtxEntriesOf(ctxp.src)
          /\ ctxp.result["raw"] = ctxp.output

\* a call returned two entries in input order, bar baz before foo, with a
\* Usage: line that looks like an entry between them adding nothing
C9_Witness ==
    /\ ctxp.pc = "done"
    /\ Len(ctxp.src) = 3
    /\ ctxp.src[1].kind = "entry" /\ ctxp.src[1].name = S_bar_baz
    /\ ctxp.src[2].kind = "usage_bad" /\ fn_match(SubSeq(ctxp.src[2].text, 8, Len(ctxp.src[2].text))).matched
    /\ ctxp.src[3].kind = "entry" /\ ctxp.src[3].name = S_foo
    /\ Len(ctxp.result["functions"]) = 2
    /\ ctxp.result["functions"][1].name = S_bar_baz
====
